---- MODULE Spec2Model ----
(***************************************************************************)
(* zuup: the refresh loop of zuup() with its review lookup                 *)
(* (get_gerrit_reviews / gerrit_query), the pipeline correlator            *)
(* (get_zuul_review), the expiring cache all_reviews, the rendering step   *)
(* and the interruptible wait (wait_input_or_timeout), as one state        *)
(* machine.  One process; pc is its position in the body of zuup().        *)
(*                                                                         *)
(* Strings that the code takes apart are modelled by their parts: a path   *)
(* or URL is the sequence of its '/'-separated segments, a JSON line is    *)
(* the record of its fields, a progress bar is the sequence of its         *)
(* characters, a rendered text is the record of what pretty_review shows   *)
(* (header, marks, detail lines).  The clock is time.time() in seconds.    *)
(* It advances in the wait between two cycles: the time a lookup takes is  *)
(* counted with the wait before it, and the in-memory loops of one step    *)
(* read one clock value.                                                   *)
(*                                                                         *)
(* Spec is the refresh loop.  PrettySpec applies the functions of the      *)
(* renderer (get_log_url, get_progress_bar_job, the loop body of           *)
(* pretty_review) to every job of Jobs.                                    *)
(***************************************************************************)
EXTENDS Integers, Sequences, FiniteSets, Bags, TLC

\* ---------------------------------------------------------------- bounds
MaxTime == 90
MaxCycles == 3
MaxLines == 2
MaxEntries == 2
MaxJobTime == 7

\* ------------------------------------------------------ program constants
SecondsPerMinute == 60
MinLines == 2
HttpOk == 200
base == 7

\* ------------------------------------------------------------ input sets
TickSteps == {30}
Urls == {"u1", "u2"}
Pipelines == {"check", "gate"}
Usernames == {"", "sileht"}
Expirations == {-1, 0, 1}
Delays == {0, 30}
Keys == {"\\x03", "\\x1b", "q"}
HttpStatuses == {200, 500}

ReviewHost == <<"https:", "", "review.openstack.org">>
ChangeRefs == {<<"111">>, ReviewHost \o <<"#", "c", "222", "3">>}
ProjectNames == {<<"gnocchi">>, <<"openstack", "nova">>}

\* a line of gerrit's JSON output: a review, or the trailing stats record
Lines == {[type |-> "stats"]} \cup {[url |-> u, project |-> "p"] : u \in Urls}

RECURSIVE SeqsUpTo(_, _)
SeqsUpTo(S, n) ==
    IF n = 0 THEN {<<>>}
    ELSE LET shorter == SeqsUpTo(S, n - 1)
         IN shorter \cup {Append(s, x) : s \in {q \in shorter : Len(q) = n - 1}, x \in S}

\* what the ssh command prints (rc # 0: check_output raises CalledProcessError)
CommandOutputs ==
    {[rc |-> 1, lines |-> <<>>]}
        \cup {[rc |-> 0, lines |-> l] : l \in SeqsUpTo(Lines, MaxLines)}

\* ------------------------------------------------------------ dictionaries
EmptyDict == [k \in {} |-> 0]

SetItem(d, k, v) == [x \in DOMAIN d \cup {k} |-> IF x = k THEN v ELSE d[x]]

\* a variant of Update that keeps the value a key already has (setdefault)
UpdateKeepOld(d, other) ==
    [x \in DOMAIN d \cup DOMAIN other |-> IF x \in DOMAIN d THEN d[x] ELSE other[x]]

\* dict.update(other)
Update(d, other) ==
    [x \in DOMAIN d \cup DOMAIN other |-> IF x \in DOMAIN other THEN other[x] ELSE d[x]]

Without(d, ks) == [x \in DOMAIN d \ ks |-> d[x]]

\* dict(pairs): later pairs overwrite earlier ones
RECURSIVE DictOf(_)
DictOf(pairs) ==
    IF pairs = <<>> THEN EmptyDict
    ELSE LET n == Len(pairs)
         IN SetItem(DictOf(SubSeq(pairs, 1, n - 1)), pairs[n][1], pairs[n][2])

\* ---------------------------------------------------------------- renderer
\* a string the renderer builds character by character is the sequence of its
\* characters; a JSON value that may be null carries its type
Repeat(c, n) == [i \in 1..n |-> c]
None == [type |-> "NoneType", value |-> <<>>]
Str(s) == [type |-> "str", value |-> s]
Falsy(v) == v = None \/ v = Str(<<>>)

LogServer == <<"http:", "", "logs.openstack.org">>
JobUrl == <<"https:", "", "jenkins", "job", "1">>
LogPath == <<"11", "1", "check", "job", "1">>

\* a job of a queue entry.  result "" is null (pending); remaining_time is in
\* the record only when it is not null; the url and the parameters may be
\* missing altogether
JobResults == {"", "SUCCESS", "FAILURE", "ABORTED"}
JobUrlFields == {EmptyDict, [url |-> None], [url |-> Str(<<>>)], [url |-> Str(JobUrl)]}
JobParameterFields ==
    {EmptyDict, [parameters |-> EmptyDict], [parameters |-> [LOG_PATH |-> LogPath]]}
JobTimingFields == {EmptyDict} \cup {[remaining_time |-> r] : r \in 0..MaxJobTime}
Jobs ==
    {[name |-> "job", result |-> res, voting |-> v, elapsed_time |-> e] @@ u @@ p @@ tm :
        res \in JobResults, v \in BOOLEAN, e \in 0..MaxJobTime,
        u \in JobUrlFields, p \in JobParameterFields, tm \in JobTimingFields}

\* color(string, color=39, mod=0): the attributes of the escape sequence
color(string, c, mod) ==
    [string |-> string, attr |-> IF mod # 0 THEN <<c, mod>> ELSE <<c>>]

\* pretty_time(t, delta=True, finished=finished): whole seconds, or the default
pretty_time(job, finished) ==
    IF "remaining_time" \in DOMAIN job /\ ~finished
    THEN [default |-> FALSE, seconds |-> job.remaining_time \div 1000]
    ELSE [default |-> TRUE, seconds |-> 0]

\* a variant of ComputedBar: the dots before the signs
ComputedBarDotsFirst(elapsed_time, remaining_time, total_time) ==
    Repeat(".", (remaining_time * base) \div total_time)
        \o Repeat("=", (elapsed_time * base) \div total_time)

\* "=" * int(elapsed) followed by "." * int(remaining); the times are
\* non-negative, so int() of the quotient is the floor of it
ComputedBar(elapsed_time, remaining_time, total_time) ==
    Repeat("=", (elapsed_time * base) \div total_time)
        \o Repeat(".", (remaining_time * base) \div total_time)

\* a variant of Padded: no compensation
PaddedNever(progress) == progress

\* if len(progress) == base - 1: progress += '.'
Padded(progress) == IF Len(progress) = base - 1 THEN Append(progress, ".") ELSE progress

get_progress_bar_job(job) ==
    LET voting_mod == IF job.voting THEN 1 ELSE 2
    IN IF job.result = "" /\ "remaining_time" \in DOMAIN job
       THEN LET total_time == job.remaining_time + job.elapsed_time
            IN IF total_time = 0
               THEN [err |-> "ZeroDivisionError", value |-> color(<<>>, 39, 0)]
               ELSE [err |-> "",
                     value |-> color(Padded(ComputedBar(job.elapsed_time,
                                                        job.remaining_time,
                                                        total_time)),
                                     39, voting_mod)]
       ELSE IF job.result = "SUCCESS"
       THEN [err |-> "", value |-> color(<<"SUCCESS">>, 32, voting_mod)]
       ELSE IF job.result = "FAILURE"
       THEN [err |-> "", value |-> color(<<"FAILURE">>, 31, voting_mod)]
       ELSE [err |-> "", value |-> color(Repeat(".", base), 39, voting_mod)]

get_progress_bar_review(job) ==
    LET voting_mod == IF job.voting THEN 1 ELSE 2
    IN IF job.result = "SUCCESS" THEN color(<<"S">>, 32, voting_mod)
       ELSE IF job.result = "FAILURE" THEN color(<<"F">>, 31, voting_mod)
       ELSE color(<<"P">>, 33, voting_mod)

get_log_url(zuul_review, job) ==
    IF job.result \in {"SUCCESS", "FAILURE"}
    THEN IF "parameters" \in DOMAIN job
         THEN IF "LOG_PATH" \in DOMAIN job.parameters
              THEN [err |-> "", value |-> Str(LogServer \o job.parameters.LOG_PATH)]
              ELSE [err |-> "KeyError", value |-> None]
         ELSE IF "url" \in DOMAIN job
              THEN [err |-> "", value |-> job.url]
              ELSE [err |-> "KeyError", value |-> None]
    ELSE [err |-> "",
          value |-> IF "url" \in DOMAIN job /\ ~Falsy(job.url) THEN job.url ELSE Str(<<>>)]

\* a variant of Suppressed: succeeded and without a URL
SuppressedBoth(job, url, running_output) ==
    (job.result = "SUCCESS" /\ Falsy(url)) /\ running_output

\* (job.get('result') == 'SUCCESS' or not url) and running_output
Suppressed(job, url, running_output) ==
    (job.result = "SUCCESS" \/ Falsy(url)) /\ running_output

\* the body of `for job in jobs` in pretty_review: what it adds to output
\* (marks) and to details (lines)
pretty_job(zuul_review, job, short_output, running_output) ==
    LET finished == job.result \in {"SUCCESS", "FAILURE"}
        url == get_log_url(zuul_review, job)
        voting_mod == IF job.voting THEN 0 ELSE 2
        marks == IF short_output THEN <<get_progress_bar_review(job)>> ELSE <<>>
        bar == get_progress_bar_job(job)
    IN IF url.err # "" THEN [err |-> url.err, marks |-> <<>>, lines |-> <<>>]
       ELSE IF ~(~short_output \/ (short_output /\ job.result = "FAILURE"))
       THEN [err |-> "", marks |-> marks, lines |-> <<>>]
       ELSE IF Suppressed(job, url.value, running_output)
       THEN [err |-> "", marks |-> marks, lines |-> <<>>]
       ELSE IF bar.err # "" THEN [err |-> bar.err, marks |-> <<>>, lines |-> <<>>]
       ELSE [err |-> "", marks |-> marks,
             lines |-> <<[bar |-> bar.value,
                          time |-> color(pretty_time(job, finished), 39, voting_mod),
                          name |-> color(job.name, 39, voting_mod),
                          url |-> color(url.value, 33, voting_mod)]>>]

\* the loop over the jobs: the first exception ends it
RECURSIVE pretty_jobs(_, _, _, _)
pretty_jobs(zuul_review, jobs, short_output, running_output) ==
    IF jobs = <<>> THEN [err |-> "", marks |-> <<>>, lines |-> <<>>]
    ELSE LET n == Len(jobs)
             before == pretty_jobs(zuul_review, SubSeq(jobs, 1, n - 1),
                                   short_output, running_output)
             this == pretty_job(zuul_review, jobs[n], short_output, running_output)
         IN IF before.err # "" THEN before
            ELSE IF this.err # "" THEN this
            ELSE [err |-> "", marks |-> before.marks \o this.marks,
                  lines |-> before.lines \o this.lines]

\* ------------------------------------------------------------ status document
\* the jobs of the queue entries of the status documents: a running job, and
\* a failed job that has neither a url nor parameters
PendingJob ==
    [name |-> "job", result |-> "", voting |-> TRUE, elapsed_time |-> 3,
     remaining_time |-> 4, url |-> Str(JobUrl)]
UnloggedJob ==
    [name |-> "job", result |-> "FAILURE", voting |-> TRUE, elapsed_time |-> 7]

\* the queue entries of the status documents: one per pipeline and review;
\* the failed job is the job of the second review in the gate pipeline
QueueEntries ==
    {[pipeline |-> p, url |-> u,
      jobs |-> IF p = "gate" /\ u = "u2" THEN <<UnloggedJob>> ELSE <<PendingJob>>] :
        p \in Pipelines, u \in Urls}

\* what requests.get returns: an exception, or a status and the flattened
\* walk pipelines -> change_queues -> heads -> entries of the document
HttpResponses ==
    {[exc |-> "ConnectionError", status |-> 0, data |-> <<>>]}
        \cup {[exc |-> "", status |-> s, data |-> <<>>] : s \in HttpStatuses \ {HttpOk}}
        \cup {[exc |-> "", status |-> HttpOk, data |-> d] : d \in SeqsUpTo(QueueEntries, MaxEntries)}

\* --------------------------------------------------- identifier normalizer
StripPrefix(s, p) ==
    IF Len(s) > Len(p) /\ SubSeq(s, 1, Len(p)) = p
    THEN SubSeq(s, Len(p) + 1, Len(s))
    ELSE s

\* one item of normalize_changes: strip the two known prefixes, keep the
\* first segment
normalize_change(change) ==
    Head(StripPrefix(StripPrefix(change, ReviewHost \o <<"#", "c">>), ReviewHost))

aliases ==
    [namespace \in {"openstack-dev", "stackforge"} |->
        IF namespace = "openstack-dev"
        THEN {"devstack", "hacking", "grenade", "oslo-cookiecutter", "pbr",
              "bashate", "cookiecutter"}
        ELSE {"gnocchi", "pecan", "murano", "solum", "rally"}]

get_full_project(project) ==
    IF Len(project) = 1 /\ \E namespace \in DOMAIN aliases : project[1] \in aliases[namespace]
    THEN <<CHOOSE namespace \in DOMAIN aliases : project[1] \in aliases[namespace]>> \o project
    ELSE IF Len(project) = 1 THEN <<"openstack">> \o project
    ELSE project

\* ------------------------------------------------------------ review lookup
command(out, min_lines) ==
    IF out.rc # 0 THEN [err |-> "CalledProcessError", lines |-> <<>>]
    ELSE IF Len(out.lines) < min_lines THEN [err |-> "UnexceptedException", lines |-> <<>>]
    ELSE [err |-> "", lines |-> out.lines]

RECURSIVE ParseLines(_)
ParseLines(lines) ==
    IF lines = <<>> THEN EmptyDict
    ELSE LET n == Len(lines)
             info == lines[n]
             before == ParseLines(SubSeq(lines, 1, n - 1))
         IN IF "type" \notin DOMAIN info THEN SetItem(before, info.url, info) ELSE before

gerrit_query(out) ==
    LET r == command(out, MinLines)
    IN IF r.err # "" THEN [err |-> r.err, reviews |-> EmptyDict]
       ELSE [err |-> "", reviews |-> ParseLines(r.lines)]

\* the query strings, by their terms
NoProject == <<>>
ChangeQuery(change) == [owner |-> "", change |-> change, project |-> NoProject]
\* a variant of ProjectQuery: the owner term left out
ProjectQueryNoOwner(username, project) == [owner |-> "", change |-> "", project |-> project]
ProjectQuery(username, project) == [owner |-> username, change |-> "", project |-> project]
OwnerQuery(username) == [owner |-> username, change |-> "", project |-> NoProject]

\* URLs of the review lines of one command output
UrlsIn(out) == {out.lines[i].url : i \in {j \in DOMAIN out.lines : "url" \in DOMAIN out.lines[j]}}

VARIABLES
    args,          \* the parsed command line
    pc,            \* position in zuup()
    clock,         \* time.time(), seconds
    cycle,         \* number of the current iteration of `while True`
    changes,       \* the normalize_changes generator: the items it has not yielded
    projects_left, \* `for project in projects`: the items not yet visited
    reviews,       \* get_gerrit_reviews' result under construction
    queries,       \* the queries this lookup has issued, in order
    result_urls,   \* the URLs that appeared in the answers to those queries
    data,          \* the status document of this cycle (r.json())
    yielded,       \* what get_zuul_review yielded in this cycle
    new_reviews,   \* zuup()'s new_reviews
    all_reviews,   \* the cache
    old_reviews,   \* the cache as it was when this cycle started
    now,           \* the cycle's status string
    stdout,        \* what the last rendering step printed
    alarm_at,      \* the pending SIGALRM, 0 when none
    ret,           \* the byte wait_input_or_timeout read, "" when none
    raised,        \* the exception that left zuup()
    rendering,     \* a job and the output flags handed to the renderer
    rendered       \* what the renderer made of it

vars == <<args, pc, clock, cycle, changes, projects_left, reviews, queries,
          result_urls, data, yielded, new_reviews, all_reviews, old_reviews,
          now, stdout, alarm_at, ret, raised, rendering, rendered>>

daemon == args.daemon \/ args.daemon_exit
no_reviews_exit == args.daemon_exit \/ ~args.daemon

NothingPrinted == [clear |-> FALSE, notice |-> FALSE, blocks |-> EmptyBag, exiting |-> FALSE]
Unset == [kind |-> "unset", msg |-> "", at |-> 0]
Fail(e) == [kind |-> "fail", msg |-> e, at |-> 0]
Timestamp(t) == [kind |-> "time", msg |-> "", at |-> t]

\* the command lines explored: every mode with and without retention and
\* the plain owner lookup, both delays and a negative expiration in daemon
\* mode, every lookup filter in one-shot mode, and change filters in daemon
\* mode
LoopArgs ==
    [daemon : BOOLEAN, daemon_exit : BOOLEAN, delay : {30},
     expiration : Expirations \ {-1}, username : {"sileht"},
     projects : {{}}, changes : {{}},
     short : {FALSE}, running : {FALSE}]

DelayArgs ==
    [daemon : {TRUE}, daemon_exit : {FALSE}, delay : Delays,
     expiration : Expirations \ {1}, username : {"sileht"},
     projects : {{}}, changes : {{}},
     short : {FALSE}, running : {FALSE}]

LookupArgs ==
    [daemon : {FALSE}, daemon_exit : {FALSE}, delay : {30},
     expiration : {1}, username : Usernames,
     projects : SUBSET ProjectNames, changes : SUBSET ChangeRefs,
     short : {FALSE}, running : {FALSE}]

DaemonLookupArgs ==
    [daemon : {TRUE}, daemon_exit : {FALSE}, delay : {30},
     expiration : {0}, username : Usernames,
     projects : {{}, {<<"gnocchi">>}}, changes : {ChangeRefs},
     short : {FALSE}, running : {FALSE}]

\* the renderer's functions on their own
NotCalled == [done |-> FALSE]
NotRendered == [url |-> NotCalled, bar |-> NotCalled, job |-> NotCalled]
RenderInputs == [job : Jobs, short_output : BOOLEAN, running_output : BOOLEAN]
ReviewOf(job) == [pipeline |-> "check", url |-> "u1", jobs |-> <<job>>]

Init ==
    /\ args \in LoopArgs \cup DelayArgs \cup LookupArgs \cup DaemonLookupArgs
    /\ rendering = [job |-> PendingJob, short_output |-> args.short,
                    running_output |-> args.running]
    /\ rendered = NotRendered
    /\ pc = "changes"
    /\ clock = 0
    /\ cycle = 1
    /\ changes = args.changes
    /\ projects_left = args.projects
    /\ reviews = EmptyDict
    /\ queries = <<>>
    /\ result_urls = {}
    /\ data = <<>>
    /\ yielded = <<>>
    /\ new_reviews = EmptyDict
    /\ all_reviews = EmptyDict
    /\ old_reviews = EmptyDict
    /\ now = Unset
    /\ stdout = NothingPrinted
    /\ alarm_at = 0
    /\ ret = ""
    /\ raised = ""


\* ------------------------------------------------------ pipeline correlator
\* the text pretty_review builds, by what it shows: the header, the marks of
\* the short output and the detail lines; pretty_time prints time.time() minus
\* the enqueue time, so the text depends on when it is built
pretty_review(pipeline, zuul_review, review, t, short_output, running_output) ==
    LET jobs == pretty_jobs(zuul_review, zuul_review.jobs, short_output, running_output)
    IN [err |-> jobs.err,
        output |-> [project |-> review.project, pipeline |-> pipeline,
                    url |-> zuul_review.url, at |-> t,
                    marks |-> jobs.marks, details |-> jobs.lines]]

\* a variant of YieldKey: the key is the review URL alone
YieldKeyUrlOnly(pipeline, zuul_review) == <<zuul_review.url>>

\* the key of a yielded tuple
YieldKey(pipeline, zuul_review) == <<pipeline, zuul_review.url>>

\* a variant of Matched: the walk stops after the first match
MatchedFirstOnly(doc, rs) ==
    LET all == SelectSeq(doc, LAMBDA e : e.url \in DOMAIN rs)
    IN SubSeq(all, 1, IF Len(all) > 1 THEN 1 ELSE Len(all))

\* the entries of the walk that pass `zuul_review['url'] in reviews`
Matched(doc, rs) == SelectSeq(doc, LAMBDA e : e.url \in DOMAIN rs)

\* what get_zuul_review yields for a fetched document, in order, up to the
\* first entry whose rendering raises
get_zuul_review(rs, doc, t, short_output, running_output) ==
    LET matched == Matched(doc, rs)
        texts == [i \in 1..Len(matched) |->
                     pretty_review(matched[i].pipeline, matched[i], rs[matched[i].url],
                                   t, short_output, running_output)]
        failing == {i \in 1..Len(matched) : texts[i].err # ""}
        first == IF failing = {} THEN Len(matched) + 1
                 ELSE CHOOSE i \in failing : \A j \in failing : i <= j
    IN [err |-> IF failing = {} THEN "" ELSE texts[first].err,
        yielded |-> [i \in 1..(first - 1) |->
                        <<YieldKey(matched[i].pipeline, matched[i]),
                          [t |-> t, text |-> texts[i].output]>>]]

\* a variant of get_reviews: what was yielded before the exception is returned
get_reviews_partial(zuul) == [err |-> "", value |-> DictOf(zuul.yielded)]

\* dict(get_zuul_review(...)): an exception of the generator leaves dict()
get_reviews(zuul) ==
    IF zuul.err # "" THEN [err |-> zuul.err, value |-> EmptyDict]
    ELSE [err |-> "", value |-> DictOf(zuul.yielded)]

\* ------------------------------------------------------------ expiring cache
\* a variant of Merged: `expiration < 0` for `expiration <= 0`
MergedNoClearAtZero(cache, fresh, expiration) ==
    Update(IF expiration < 0 THEN EmptyDict ELSE cache, fresh)

\* the else branch of the try: clear when expiration <= 0, then update
Merged(cache, fresh, expiration) ==
    Update(IF expiration <= 0 THEN EmptyDict ELSE cache, fresh)

\* a variant of Expired: `>` for `>=`
ExpiredStrict(t_now, last_update, expiration) ==
    t_now - last_update > SecondsPerMinute * expiration

Expired(t_now, last_update, expiration) ==
    t_now - last_update >= SecondsPerMinute * expiration

\* a variant of Evicted: the eviction runs whatever the expiration is
EvictedUnguarded(cache, t_now, expiration) ==
    Without(cache, {k \in DOMAIN cache : Expired(t_now, cache[k].t, expiration)})

\* if args.expiration > 0: delete the expired entries
Evicted(cache, t_now, expiration) ==
    IF expiration > 0
    THEN Without(cache, {k \in DOMAIN cache : Expired(t_now, cache[k].t, expiration)})
    ELSE cache

\* a variant of PrintedBlocks: one block per review URL
PrintedOncePerUrl(cache) ==
    LET first(u) == CHOOSE k \in DOMAIN cache : k[Len(k)] = u
        texts == {cache[first(k[Len(k)])].text : k \in DOMAIN cache}
    IN [x \in texts |-> 1]

\* for data in all_reviews.values(): print(data[1])
PrintedBlocks(cache) ==
    LET texts == {cache[k].text : k \in DOMAIN cache}
    IN [x \in texts |-> Cardinality({k \in DOMAIN cache : cache[k].text = x})]

\* a variant of IsInterrupt: Escape is an ordinary key
IsInterruptOnlyCtrlC(key) == key = "\\x03"

\* `ret in [b'\x03', b'\x1b']`
IsInterrupt(key) == key \in {"\\x03", "\\x1b"}

\* the exit status main() ends with: it catches KeyboardInterrupt only
ExitStatus(exception) == IF exception \in {"", "KeyboardInterrupt"} THEN 0 ELSE 1

\* a variant of CacheOnFailure: the clear of line 356 done before the try
CacheClearedOnFailure(cache, expiration) ==
    IF expiration <= 0 THEN EmptyDict ELSE cache

\* the except branch assigns `now` only
CacheOnFailure(cache, expiration) == cache

\* ------------------------------------------------------------------ actions
\* an exception reaches `except Exception` in zuup(): the frames of
\* get_reviews are gone, new_reviews keeps its old value
Raise(e) ==
    /\ now' = Fail(e)
    /\ all_reviews' = CacheOnFailure(all_reviews, args.expiration)
    /\ pc' = "evict"
    /\ reviews' = EmptyDict
    /\ queries' = <<>>
    /\ result_urls' = {}
    /\ data' = <<>>
    /\ yielded' = <<>>

\* one gerrit_query call of get_gerrit_reviews
Query(query, next_pc) ==
    \E out \in CommandOutputs :
        LET r == gerrit_query(out)
        IN IF r.err # ""
           THEN Raise(r.err)
           ELSE /\ reviews' = Update(reviews, r.reviews)
                /\ queries' = Append(queries, query)
                /\ result_urls' = result_urls \cup UrlsIn(out)
                /\ pc' = next_pc
                /\ UNCHANGED <<now, data, yielded, all_reviews>>

QueryChange ==
    /\ pc = "changes"
    /\ \E change \in changes :
        /\ changes' = changes \ {change}
        /\ Query(ChangeQuery(normalize_change(change)), "changes")
    /\ UNCHANGED <<rendering, rendered, args, clock, cycle, projects_left, new_reviews,
                   old_reviews, stdout, alarm_at, ret, raised>>

ChangesDone ==
    /\ pc = "changes"
    /\ changes = {}
    /\ pc' = "projects"
    /\ projects_left' = args.projects
    /\ UNCHANGED <<rendering, rendered, args, clock, cycle, changes, reviews, queries, result_urls, data,
                   yielded, new_reviews, all_reviews, old_reviews, now, stdout,
                   alarm_at, ret, raised>>

QueryProject ==
    /\ pc = "projects"
    /\ \E project \in projects_left :
        /\ projects_left' = projects_left \ {project}
        /\ Query(ProjectQuery(args.username, get_full_project(project)), "projects")
    /\ UNCHANGED <<rendering, rendered, args, clock, cycle, changes, new_reviews,
                   old_reviews, stdout, alarm_at, ret, raised>>

\* the for loop has no break: its else clause always runs
ProjectsDone ==
    /\ pc = "projects"
    /\ projects_left = {}
    /\ pc' = "owner"
    /\ UNCHANGED <<rendering, rendered, args, clock, cycle, changes, projects_left, reviews, queries,
                   result_urls, data, yielded, new_reviews, all_reviews,
                   old_reviews, now, stdout, alarm_at, ret, raised>>

QueryOwner ==
    /\ pc = "owner"
    /\ args.username # ""
    /\ Query(OwnerQuery(args.username), "zuul")
    /\ UNCHANGED <<rendering, rendered, args, clock, cycle, changes, projects_left, new_reviews,
                   old_reviews, stdout, alarm_at, ret, raised>>

NoOwner ==
    /\ pc = "owner"
    /\ args.username = ""
    /\ pc' = "zuul"
    /\ UNCHANGED <<rendering, rendered, args, clock, cycle, changes, projects_left, reviews, queries,
                   result_urls, data, yielded, new_reviews, all_reviews,
                   old_reviews, now, stdout, alarm_at, ret, raised>>

\* get_zuul_review consumed by dict() in get_reviews, assigned to new_reviews;
\* an exception of the rendering reaches `except Exception` like the others
Fetch ==
    /\ pc = "zuul"
    /\ \E r \in HttpResponses :
        IF r.exc # "" THEN Raise(r.exc) /\ UNCHANGED new_reviews
        ELSE IF r.status # HttpOk THEN Raise("UnexceptedException") /\ UNCHANGED new_reviews
        ELSE LET zuul == get_zuul_review(reviews, r.data, clock, args.short, args.running)
                 got == get_reviews(zuul)
             IN /\ data' = r.data
                /\ yielded' = zuul.yielded
                /\ IF got.err # ""
                   THEN /\ now' = Fail(got.err)
                        /\ all_reviews' = CacheOnFailure(all_reviews, args.expiration)
                        /\ pc' = "evict"
                        /\ UNCHANGED new_reviews
                   ELSE /\ new_reviews' = got.value
                        /\ pc' = "merge"
                        /\ UNCHANGED <<now, all_reviews>>
                /\ UNCHANGED <<reviews, queries, result_urls>>
    /\ UNCHANGED <<rendering, rendered, args, clock, cycle, changes, projects_left,
                   old_reviews, stdout, alarm_at, ret, raised>>

Merge ==
    /\ pc = "merge"
    /\ now' = Timestamp(clock)
    /\ all_reviews' = Merged(all_reviews, new_reviews, args.expiration)
    /\ reviews' = EmptyDict
    /\ queries' = <<>>
    /\ result_urls' = {}
    /\ data' = <<>>
    /\ yielded' = <<>>
    /\ pc' = "evict"
    /\ UNCHANGED <<rendering, rendered, args, clock, cycle, changes, projects_left, new_reviews,
                   old_reviews, stdout, alarm_at, ret, raised>>

\* the locals of get_reviews are gone by now
Evict ==
    /\ pc = "evict"
    /\ all_reviews' = Evicted(all_reviews, clock, args.expiration)
    /\ reviews' = EmptyDict
    /\ queries' = <<>>
    /\ result_urls' = {}
    /\ data' = <<>>
    /\ yielded' = <<>>
    /\ pc' = "render"
    /\ UNCHANGED <<rendering, rendered, args, clock, cycle, changes, projects_left, new_reviews,
                   old_reviews, now, stdout, alarm_at, ret, raised>>

\* a variant of ExitsAfterRender: an empty cache ends the loop in every mode
ExitsOnEmptyCache(empty) == empty \/ ~daemon

\* `return` on an empty cache, `break` when not a daemon
ExitsAfterRender(empty) == (empty /\ no_reviews_exit) \/ ~daemon

Render ==
    /\ pc = "render"
    /\ LET empty == DOMAIN all_reviews = {}
       IN /\ stdout' = [clear |-> daemon /\ ~(empty /\ no_reviews_exit),
                        notice |-> empty,
                        blocks |-> PrintedBlocks(all_reviews),
                        exiting |-> FALSE]
          /\ IF ExitsAfterRender(empty)
             THEN pc' = "exit" /\ alarm_at' = 0
             ELSE /\ pc' = "waiting"
                  /\ alarm_at' = IF args.delay > 0 THEN clock + args.delay ELSE 0
    /\ UNCHANGED <<rendering, rendered, args, clock, cycle, changes, projects_left, reviews, queries,
                   result_urls, data, yielded, new_reviews, all_reviews,
                   old_reviews, now, ret, raised>>

\* back to the top of `while True`; new_reviews and now are assigned before
\* they are read again, so their old values are dropped here
NextCycle ==
    /\ cycle < MaxCycles
    /\ cycle' = cycle + 1
    /\ pc' = "changes"
    /\ alarm_at' = 0
    /\ ret' = ""
    /\ old_reviews' = all_reviews
    /\ new_reviews' = EmptyDict
    /\ now' = Unset
    /\ UNCHANGED <<rendering, rendered, args, clock, changes, projects_left, reviews, queries,
                   result_urls, data, yielded, all_reviews, stdout, raised>>

\* the read of one byte returns; wait_until's finally cancels the alarm
ReadKey ==
    /\ pc = "waiting"
    /\ \E key \in Keys : ret' = key
    /\ alarm_at' = 0
    /\ pc' = "key"
    /\ UNCHANGED <<rendering, rendered, args, clock, cycle, changes, projects_left, reviews, queries,
                   result_urls, data, yielded, new_reviews, all_reviews,
                   old_reviews, now, stdout, raised>>

\* a key other than Ctrl-C and Escape: prompt2, and the loop goes on
KeyProceed ==
    /\ pc = "key"
    /\ ~IsInterrupt(ret)
    /\ NextCycle

\* Ctrl-C or Escape: KeyboardInterrupt leaves zuup(), main() prints the notice
KeyInterrupt ==
    /\ pc = "key"
    /\ IsInterrupt(ret)
    /\ raised' = "KeyboardInterrupt"
    /\ stdout' = [stdout EXCEPT !.exiting = TRUE]
    /\ pc' = "exit"
    /\ UNCHANGED <<rendering, rendered, args, clock, cycle, changes, projects_left, reviews, queries,
                   result_urls, data, yielded, new_reviews, all_reviews,
                   old_reviews, now, alarm_at, ret>>

\* SIGALRM: TimeoutExpired is swallowed by wait_until, ret stays None
Timeout ==
    /\ pc = "waiting"
    /\ alarm_at # 0
    /\ clock >= alarm_at
    /\ NextCycle

Tick ==
    /\ pc = "waiting"
    /\ \E dt \in TickSteps :
        /\ clock + dt <= MaxTime
        /\ clock' = clock + dt
    /\ UNCHANGED <<rendering, rendered, args, pc, cycle, changes, projects_left, reviews, queries,
                   result_urls, data, yielded, new_reviews, all_reviews,
                   old_reviews, now, stdout, alarm_at, ret, raised>>

Next ==
    \/ QueryChange
    \/ ChangesDone
    \/ QueryProject
    \/ ProjectsDone
    \/ QueryOwner
    \/ NoOwner
    \/ Fetch
    \/ Merge
    \/ Evict
    \/ Render
    \/ ReadKey
    \/ KeyProceed
    \/ KeyInterrupt
    \/ Timeout
    \/ Tick

Spec == Init /\ [][Next]_vars

\* ------------------------------------------------------- the renderer alone
\* the functions of the renderer applied to one job: every job of Jobs with
\* every combination of the output flags; zuup() itself has returned
LoopVars ==
    <<args, pc, clock, cycle, changes, projects_left, reviews, queries,
      result_urls, data, yielded, new_reviews, all_reviews, old_reviews,
      now, stdout, alarm_at, ret, raised>>

PrettyInit ==
    /\ rendering \in RenderInputs
    /\ rendered = NotRendered
    /\ args = [daemon |-> FALSE, daemon_exit |-> FALSE, delay |-> 30,
               expiration |-> 1, username |-> "", projects |-> {}, changes |-> {},
               short |-> rendering.short_output, running |-> rendering.running_output]
    /\ pc = "exit"
    /\ clock = 0
    /\ cycle = 1
    /\ changes = {}
    /\ projects_left = {}
    /\ reviews = EmptyDict
    /\ queries = <<>>
    /\ result_urls = {}
    /\ data = <<>>
    /\ yielded = <<>>
    /\ new_reviews = EmptyDict
    /\ all_reviews = EmptyDict
    /\ old_reviews = EmptyDict
    /\ now = Unset
    /\ stdout = NothingPrinted
    /\ alarm_at = 0
    /\ ret = ""
    /\ raised = ""

Called(r) == [done |-> TRUE, err |-> r.err, value |-> r.value]

LogUrl ==
    /\ ~rendered.url.done
    /\ rendered' = [rendered EXCEPT !.url = Called(get_log_url(ReviewOf(rendering.job), rendering.job))]
    /\ UNCHANGED <<rendering, LoopVars>>

ProgressBar ==
    /\ ~rendered.bar.done
    /\ rendered' = [rendered EXCEPT !.bar = Called(get_progress_bar_job(rendering.job))]
    /\ UNCHANGED <<rendering, LoopVars>>

PrettyJob ==
    /\ ~rendered.job.done
    /\ LET out == pretty_job(ReviewOf(rendering.job), rendering.job, rendering.short_output,
                             rendering.running_output)
       IN rendered' = [rendered EXCEPT !.job = [done |-> TRUE, err |-> out.err,
                                                marks |-> out.marks, lines |-> out.lines]]
    /\ UNCHANGED <<rendering, LoopVars>>

PrettyNext ==
    \/ LogUrl
    \/ ProgressBar
    \/ PrettyJob

PrettySpec == PrettyInit /\ [][PrettyNext]_vars

\* ------------------------------------------------------------------ claims
Window == SecondsPerMinute * args.expiration
Succeeded == now.kind = "time"
Failed == now.kind = "fail"
AfterMerge == pc \in {"evict", "render", "waiting", "key", "exit"}
AfterRender == pc \in {"waiting", "key", "exit"}
UrlsOf(cache) == {k[Len(k)] : k \in DOMAIN cache}
Age(entry) == clock - entry.t

\* C1: with expiration <= 0, after a successful cycle the keys of the cache
\* are exactly the keys of that cycle's fresh results: no entry that only an
\* earlier cycle produced is left.
C1_NoRetentionKeys ==
    (args.expiration <= 0 /\ Succeeded /\ AfterMerge)
        => /\ DOMAIN all_reviews = DOMAIN new_reviews
           /\ \A k \in DOMAIN old_reviews \ DOMAIN new_reviews : k \notin DOMAIN all_reviews

\* cycle 2 succeeded with a non-empty strict subset of cycle 1's keys and URLs
C1_Witness ==
    /\ args.expiration <= 0 /\ Succeeded /\ pc = "render" /\ cycle = 2
    /\ DOMAIN new_reviews # {}
    /\ DOMAIN new_reviews \subseteq DOMAIN old_reviews
    /\ UrlsOf(new_reviews) # UrlsOf(old_reviews)
    /\ DOMAIN all_reviews = DOMAIN new_reviews

\* C2: with expiration > 0, when a successful cycle's results are a strict
\* subset of the keys the cache held from the cycle before and every one of
\* those entries is younger than the window at eviction, the cache after the
\* cycle holds the union of the keys; matched entries carry this cycle's
\* timestamp and text, the others keep the timestamp and text they had.
C2_UnionWithinWindow ==
    (/\ args.expiration > 0 /\ Succeeded /\ pc = "render" /\ cycle >= 2
     /\ DOMAIN new_reviews \subseteq DOMAIN old_reviews
     /\ DOMAIN new_reviews # DOMAIN old_reviews
     /\ \A k \in DOMAIN old_reviews : Age(old_reviews[k]) < Window)
        => /\ DOMAIN all_reviews = DOMAIN old_reviews \cup DOMAIN new_reviews
           /\ \A k \in DOMAIN new_reviews :
                /\ all_reviews[k] = new_reviews[k]
                /\ all_reviews[k].t = now.at
                /\ all_reviews[k].text.at = now.at
           /\ \A k \in DOMAIN old_reviews \ DOMAIN new_reviews :
                all_reviews[k] = old_reviews[k]

\* cycle 2, later than cycle 1 and within the window, matched one of the two
\* URLs of cycle 1
C2_Witness ==
    /\ args.expiration > 0 /\ Succeeded /\ pc = "render" /\ cycle = 2
    /\ DOMAIN new_reviews # {}
    /\ DOMAIN new_reviews \subseteq DOMAIN old_reviews
    /\ UrlsOf(new_reviews) # UrlsOf(old_reviews)
    /\ \A k \in DOMAIN old_reviews : Age(old_reviews[k]) < Window
    /\ \E k \in DOMAIN new_reviews : old_reviews[k].t < all_reviews[k].t
    /\ \E k \in DOMAIN old_reviews \ DOMAIN new_reviews : all_reviews[k].t < now.at

\* the cache as the eviction step found it, and the stamp it compared
BeforeEviction == IF Succeeded THEN DOMAIN old_reviews \cup DOMAIN new_reviews ELSE DOMAIN old_reviews
LatestStamp(k) == IF Succeeded /\ k \in DOMAIN new_reviews THEN new_reviews[k].t ELSE old_reviews[k].t

C3_AfterEviction ==
    pc = "render" =>
        IF args.expiration > 0
        THEN /\ \A k \in DOMAIN all_reviews : Age(all_reviews[k]) < Window
             /\ \A k \in BeforeEviction :
                    clock - LatestStamp(k) < Window => k \in DOMAIN all_reviews
        ELSE all_reviews = IF Succeeded THEN new_reviews ELSE old_reviews

C3_PrintedYoung ==
    (pc = "render" /\ args.expiration > 0)
        => \A text \in BagToSet(stdout'.blocks) : clock - text.at < Window

\* C3: with expiration > 0, when the eviction step of a cycle (successful or
\* failed) ends, no entry of the cache has an age of expiration*60 seconds or
\* more and no entry younger than that was removed; with expiration <= 0 the
\* eviction step removes nothing; every text a rendering step prints with
\* expiration > 0 belongs to an entry younger than the window.
C3_Eviction == [](C3_AfterEviction) /\ [][C3_PrintedYoung]_vars

\* an entry of exactly the window's age was evicted while a younger entry of
\* an earlier cycle was kept
C3_Witness ==
    /\ pc = "render" /\ args.expiration > 0
    /\ \E k \in DOMAIN old_reviews : clock - LatestStamp(k) = Window /\ k \notin DOMAIN all_reviews
    /\ \E k \in DOMAIN old_reviews :
          /\ k \in DOMAIN all_reviews
          /\ all_reviews[k] = old_reviews[k]
          /\ Age(all_reviews[k]) > 0

InterruptKeys == {"\\x03", "\\x1b"}
Polling == pc \in {"changes", "projects", "owner", "zuul"}
Untouched == \A k \in DOMAIN all_reviews : k \in DOMAIN old_reviews /\ all_reviews[k] = old_reviews[k]

\* C4 as stated: in daemon mode, with or without exit-when-empty, a failed
\* cycle has the error text as its status, adds and changes no cache entry,
\* and never ends the loop: the loop goes on to the wait.
C4_FailedCycleContinues ==
    (daemon /\ Failed /\ AfterMerge)
        => /\ now.msg # ""
           /\ Untouched
           /\ (pc = "exit" => raised = "KeyboardInterrupt")

C4_State ==
    (daemon /\ Failed /\ AfterMerge)
        => /\ now.msg # ""
           /\ Untouched
           /\ (pc = "evict" => all_reviews = old_reviews)
           /\ (pc = "exit" /\ raised # "KeyboardInterrupt"
                  => args.daemon_exit /\ DOMAIN all_reviews = {} /\ stdout.notice)

C4_Step ==
    /\ (daemon /\ Polling /\ pc' = "evict")
          => now'.kind = "fail" /\ now'.msg # "" /\ all_reviews' = all_reviews
    /\ (daemon /\ Failed /\ pc = "render" /\ ~(args.daemon_exit /\ DOMAIN all_reviews = {}))
          => pc' = "waiting"
    /\ (daemon /\ Failed /\ pc = "waiting" /\ pc' # "waiting") => pc' \in {"changes", "key"}
    /\ (daemon /\ Failed /\ pc = "key" /\ ret \notin InterruptKeys) => pc' = "changes"

\* C4 (amended): in daemon mode a transport error in the polling step makes
\* the error text the cycle's status, adds no cache entry and changes none
\* (eviction alone removes entries), and the loop goes on to the wait and from
\* there to the next polling step, unless exit-when-empty was requested and
\* the cache is empty after eviction: then the loop ends after the notice.
C4_FailedCycle == [](C4_State) /\ [][C4_Step]_vars

\* a failed daemon cycle that evicted one entry, kept another and waits
C4_Witness ==
    /\ daemon /\ Failed /\ pc = "waiting"
    /\ DOMAIN all_reviews # {}
    /\ DOMAIN all_reviews # DOMAIN old_reviews

\* C5: in one-shot mode a transport error leaves zuup() and ends the process
\* with the error, and the failed cycle is not rendered as a cycle without
\* reviews.
C5_OneShotErrorSurfaces ==
    (~daemon /\ Failed /\ pc = "exit")
        => ExitStatus(raised) # 0 /\ ~stdout.notice

C6_Step ==
    /\ pc = "render"
          => (pc' = "exit" <=> (~daemon \/ (args.daemon_exit /\ DOMAIN all_reviews = {})))
    /\ (pc # "exit" /\ pc' = "exit") => pc \in {"render", "key"}
    /\ (pc = "key" /\ pc' = "exit") => ret \in InterruptKeys

C6_State ==
    (daemon /\ ~args.daemon_exit /\ pc = "exit") => raised = "KeyboardInterrupt"

\* C6: a rendering step is followed by the exit exactly when the mode is
\* one-shot, or exit-when-empty was requested and the cache is empty at that
\* step; in daemon mode without exit-when-empty only an interrupt key ends
\* the loop.
C6_ExitCondition == [][C6_Step]_vars /\ [](C6_State)

\* exit-when-empty ended the loop in a later cycle, after a cycle with reviews
C6_Witness ==
    /\ daemon /\ args.daemon_exit /\ pc = "exit" /\ raised = ""
    /\ cycle >= 2 /\ stdout.notice /\ DOMAIN all_reviews = {}

C7_Step ==
    /\ (pc = "waiting" /\ ret' # "") => pc' = "key"
    /\ (pc = "key" /\ ret \in InterruptKeys)
          => /\ pc' = "exit"
             /\ raised' = "KeyboardInterrupt"
             /\ stdout'.exiting
             /\ ExitStatus(raised') = 0
    /\ (pc = "key" /\ ret \notin InterruptKeys) => (pc' = "changes" /\ cycle' = cycle + 1)
    /\ pc = "exit" => pc' = "exit"

C7_State ==
    (pc = "exit" /\ ret \in InterruptKeys)
        => raised = "KeyboardInterrupt" /\ stdout.exiting /\ ExitStatus(raised) = 0

\* C7: in the wait, Ctrl-C or Escape ends the loop: no polling step follows,
\* the exit notice is printed and the process ends with status 0; any other
\* key ends the wait at once and the next polling step follows.
C7_Keys == [][C7_Step]_vars /\ [](C7_State)

\* Escape ended a loop whose earlier wait another key or the timeout had ended
C7_Witness ==
    /\ pc = "exit" /\ ret = "\\x1b" /\ cycle >= 2
    /\ raised = "KeyboardInterrupt" /\ stdout.exiting

BlocksWhere(P(_)) ==
    LET texts == {x \in BagToSet(stdout.blocks) : P(x)}
        RECURSIVE Sum(_)
        Sum(S) == IF S = {} THEN 0
                  ELSE LET x == CHOOSE y \in S : TRUE
                       IN CopiesIn(x, stdout.blocks) + Sum(S \ {x})
    IN Sum(texts)

\* C8 as stated: the cache holds at most one entry per review URL and a
\* rendering step prints at most one block per review URL.
C8_OneEntryPerUrl ==
    \A u \in Urls :
        /\ Cardinality({k \in DOMAIN all_reviews : k[Len(k)] = u}) <= 1
        /\ AfterRender => BlocksWhere(LAMBDA x : x.url = u) <= 1

\* C8 (amended): the cache maps (pipeline name, review URL) to one entry
\* whose text is that pipeline's block for that URL, and a rendering step
\* prints at most one block per pipeline and URL: a URL queued in several
\* pipelines has one entry and one block for each of them.
C8_OneEntryPerPipelineAndUrl ==
    /\ \A k \in DOMAIN all_reviews :
          /\ Len(k) = 2
          /\ k[1] \in Pipelines /\ k[2] \in Urls
          /\ all_reviews[k].text.pipeline = k[1]
          /\ all_reviews[k].text.url = k[2]
    /\ AfterRender =>
          \A p \in Pipelines, u \in Urls :
              BlocksWhere(LAMBDA x : x.pipeline = p /\ x.url = u) <= 1

\* one URL cached and printed for two pipelines
C8_Witness ==
    /\ pc = "waiting"
    /\ \E u \in Urls :
          /\ \A p \in Pipelines : <<p, u>> \in DOMAIN all_reviews
          /\ BlocksWhere(LAMBDA x : x.url = u) = Cardinality(Pipelines)

MatchingEntries == {i \in DOMAIN data : data[i].url \in DOMAIN reviews}

\* C9: the fresh results of a successful cycle hold an entry for a URL only
\* if the URL is a key of the lookup result and the URL of a queue entry of
\* the fetched document, and every queue entry whose URL is a key of the
\* lookup result yields one tuple; an entry of an earlier cycle that this
\* cycle did not match stays in the cache while it is younger than the
\* window, and is printed.
C9_Correlation ==
    /\ pc = "merge" =>
          /\ \A k \in DOMAIN new_reviews :
                /\ k[2] \in DOMAIN reviews
                /\ \E i \in DOMAIN data : data[i].pipeline = k[1] /\ data[i].url = k[2]
          /\ Len(yielded) = Cardinality(MatchingEntries)
          /\ \A i \in MatchingEntries :
                /\ \E j \in DOMAIN yielded : yielded[j][1] = <<data[i].pipeline, data[i].url>>
                /\ <<data[i].pipeline, data[i].url>> \in DOMAIN new_reviews
    /\ (pc = "render" /\ Succeeded /\ args.expiration > 0) =>
          \A k \in DOMAIN old_reviews \ DOMAIN new_reviews :
              Age(old_reviews[k]) < Window
                  => k \in DOMAIN all_reviews /\ all_reviews[k] = old_reviews[k]
    /\ (AfterRender /\ Succeeded) =>
          \A k \in DOMAIN all_reviews : CopiesIn(all_reviews[k].text, stdout.blocks) = 1

\* a review of the lookup has no queue entry in this cycle's document, another
\* one has two, and the cache holds the first one's entry of an earlier cycle
C9_Witness ==
    /\ pc = "merge" /\ args.expiration > 0 /\ cycle >= 2
    /\ Len(yielded) = 2
    /\ \E u \in DOMAIN reviews :
          /\ \A i \in DOMAIN data : data[i].url # u
          /\ \E k \in DOMAIN all_reviews : k[2] = u /\ Age(all_reviews[k]) > 0

\* C10: a lookup that returns has issued one query per change, one per
\* project, and the bare owner query only when a username is given and neither
\* a change nor a project is; the keys of its result are URLs of the answers.
C10_QueryCount ==
    (pc = "zuul" /\ cycle = 1)
        => /\ Len(queries) =
                Cardinality(args.changes) + Cardinality(args.projects)
                    + (IF args.username # "" /\ args.changes = {} /\ args.projects = {}
                       THEN 1 ELSE 0)
           /\ DOMAIN reviews \subseteq result_urls

ChangeQueries == {queries[i].change : i \in {j \in DOMAIN queries : queries[j].change # ""}}
ProjectQueries == {queries[i].project : i \in {j \in DOMAIN queries : queries[j].project # NoProject}}

\* C12: in daemon mode the lookup of every cycle queries the normalized
\* change identifiers and the projects configured at startup: the change
\* queries of a cycle are those of the first cycle.
C12_SameChangesEveryCycle ==
    /\ (daemon /\ pc = "projects")
          => ChangeQueries = {normalize_change(change) : change \in args.changes}
    /\ (daemon /\ pc = "owner")
          => ProjectQueries = {get_full_project(project) : project \in args.projects}

\* C13: a wait has a deadline for every non-negative delay: an alarm is
\* pending, due no later than the delay from now, and ends the wait when no
\* key is pressed.
C13_BoundedWait ==
    (pc = "waiting" /\ args.delay >= 0)
        => alarm_at # 0 /\ alarm_at <= clock + args.delay

RenderFailed ==
    \E i \in MatchingEntries : \E j \in DOMAIN data[i].jobs : data[i].jobs[j] = UnloggedJob

C14_State ==
    (pc = "evict" /\ RenderFailed)
        => Failed /\ now.msg # "" /\ all_reviews = old_reviews

C14_Step ==
    /\ (pc = "zuul" /\ pc' # "zuul" /\ RenderFailed')
          => pc' = "evict" /\ now'.kind = "fail" /\ all_reviews' = all_reviews
    /\ (pc = "evict" /\ RenderFailed)
          => /\ pc' = "render"
             /\ \A k \in DOMAIN all_reviews' :
                   k \in DOMAIN old_reviews /\ all_reviews'[k] = old_reviews[k]
             /\ \A k \in DOMAIN old_reviews \ DOMAIN all_reviews' :
                   args.expiration > 0 /\ Age(old_reviews[k]) >= Window

\* C14: an exception of the rendering of a matched queue entry, raised after
\* earlier entries of the same document were rendered, ends the cycle as a
\* transport error does: the status is the error, nothing that was rendered
\* is merged, and after the cycle the cache is the cache of before without
\* the entries the eviction removed.
C14_RenderFailure == [](C14_State) /\ [][C14_Step]_vars

\* the rendering failed after an entry was rendered that the cache lacks
C14_Witness ==
    /\ pc = "evict" /\ RenderFailed /\ cycle >= 2
    /\ DOMAIN old_reviews # {}
    /\ \E i \in DOMAIN yielded : yielded[i][1] \notin DOMAIN old_reviews

TextsOf(cache) == {cache[k].text : k \in DOMAIN cache}

C15_State ==
    (args.expiration <= 0 /\ Failed /\ AfterMerge)
        => /\ all_reviews = old_reviews
           /\ AfterRender =>
                 /\ BagToSet(stdout.blocks) = TextsOf(old_reviews)
                 /\ stdout.notice <=> DOMAIN old_reviews = {}

C15_Step ==
    (args.expiration <= 0 /\ all_reviews' # all_reviews) => (pc = "merge" /\ Succeeded')

\* C15: with expiration <= 0 a failed cycle neither clears the cache nor
\* evicts from it: keys, timestamps and texts are those of before the cycle
\* and are what the cycle displays; only the merge of a successful cycle
\* changes the cache.
C15_FailedCycleKeeps == [](C15_State) /\ [][C15_Step]_vars

\* a later cycle failed and displays what an earlier one found
C15_Witness ==
    /\ args.expiration <= 0 /\ Failed /\ pc = "waiting" /\ cycle >= 2
    /\ DOMAIN all_reviews # {}
    /\ \A k \in DOMAIN all_reviews : all_reviews[k].t < clock
    /\ BagToSet(stdout.blocks) # {}

\* the entries this cycle cleared or evicted
Removed == BeforeEviction \ DOMAIN all_reviews

\* C16: what a rendering step printed: the notice exactly when the cache is
\* empty after merge and eviction, the text of every cache entry once, and
\* no text of an entry that the cycle cleared or evicted.
C16_Rendering ==
    AfterRender =>
        /\ stdout.notice <=> DOMAIN all_reviews = {}
        /\ \A k \in DOMAIN all_reviews : CopiesIn(all_reviews[k].text, stdout.blocks) = 1
        /\ BagToSet(stdout.blocks) = TextsOf(all_reviews)
        /\ \A k \in Removed :
              /\ k \in DOMAIN old_reviews => CopiesIn(old_reviews[k].text, stdout.blocks) = 0
              /\ k \in DOMAIN new_reviews => CopiesIn(new_reviews[k].text, stdout.blocks) = 0

\* one review printed for two pipelines while an older entry was evicted
C16_Witness ==
    /\ pc = "waiting" /\ Removed # {}
    /\ \E u \in Urls : \A p \in Pipelines : <<p, u>> \in DOMAIN all_reviews
    /\ BagCardinality(stdout.blocks) = Cardinality(DOMAIN all_reviews)

BareOwner(q) == q.owner # "" /\ q.change = "" /\ q.project = NoProject

\* C17: a lookup with a username ends with the bare owner query, whatever
\* changes and projects were given, and its project queries carry the owner
\* term; a lookup without a username issues no query with an owner term.
C17_OwnerQuery ==
    pc = "zuul" =>
        /\ Cardinality({i \in DOMAIN queries : queries[i].project # NoProject})
              = Cardinality(args.projects)
        /\ args.username # "" =>
              /\ queries # <<>>
              /\ \A i \in DOMAIN queries :
                    /\ BareOwner(queries[i]) <=> i = Len(queries)
                    /\ queries[i].project # NoProject => queries[i].owner = args.username
              /\ queries[Len(queries)].owner = args.username
        /\ args.username = "" => \A i \in DOMAIN queries : queries[i].owner = ""

\* a lookup with a username, changes and projects: one query more than filters
C17_Witness ==
    /\ pc = "zuul" /\ args.username # ""
    /\ args.changes # {} /\ args.projects # {}
    /\ Len(queries) = Cardinality(args.changes) + Cardinality(args.projects) + 1
    /\ BareOwner(queries[Len(queries)])

\* ------------------------------------------------- claims on the renderer
Pending == rendering.job.result = ""
Timed == "remaining_time" \in DOMAIN rendering.job
Elapsed == rendering.job.elapsed_time
Remaining == rendering.job.remaining_time
Total == Elapsed + Remaining
PendingTimed == Pending /\ Timed /\ Total > 0
Bar == rendered.bar.value.string
Signs == (7 * Elapsed) \div Total
Dots == (7 * Remaining) \div Total

\* C11 as stated: elapsed 3 and remaining 4 give "===...."; elapsed 1 and
\* remaining 6 give a compensated bar of 8 characters; a computed bar that is
\* one character short gets one '.' more and is then 8 characters wide.
C11_BarCompensation ==
    (rendered.bar.done /\ PendingTimed)
        => /\ rendered.bar.err = ""
           /\ (Elapsed = 3 /\ Remaining = 4)
                 => Bar = <<"=", "=", "=", ".", ".", ".", ".">>
           /\ (Elapsed = 1 /\ Remaining = 6) => Len(Bar) = 8
           /\ Signs + Dots = 6
                 => Bar = Repeat("=", Signs) \o Repeat(".", Dots + 1) /\ Len(Bar) = 8

\* C11 (amended): elapsed 3 and remaining 4 give "===...."; elapsed 1 and
\* remaining 6 give "=......", 7 characters with no compensation; a computed
\* bar that is one character short of the full width (6 characters) gets one
\* '.' more and is then 7 characters wide.
C11_BarPadding ==
    (rendered.bar.done /\ PendingTimed)
        => /\ rendered.bar.err = ""
           /\ (Elapsed = 3 /\ Remaining = 4)
                 => Bar = <<"=", "=", "=", ".", ".", ".", ".">>
           /\ (Elapsed = 1 /\ Remaining = 6)
                 => Bar = <<"=", ".", ".", ".", ".", ".", ".">>
           /\ Signs + Dots = 6
                 => Bar = Repeat("=", Signs) \o Repeat(".", Dots + 1) /\ Len(Bar) = 7

\* a half-done job: three signs, three dots and the dot of the compensation
C11_Witness ==
    /\ rendered.bar.done /\ PendingTimed
    /\ Elapsed = 1 /\ Remaining = 1
    /\ Bar = <<"=", "=", "=", ".", ".", ".", ".">>

\* what the specification of log URL resolution gives for the job
SpecifiedLogUrl ==
    LET job == rendering.job
    IN IF /\ job.result \in {"SUCCESS", "FAILURE"}
          /\ "parameters" \in DOMAIN job
          /\ "LOG_PATH" \in DOMAIN job.parameters
       THEN Str(LogServer \o job.parameters.LOG_PATH)
       ELSE IF "url" \in DOMAIN job /\ job.url.type = "str" THEN job.url
       ELSE Str(<<>>)

\* C18 as stated: with runningOnly on and shortOutput off, a job's detail line
\* is suppressed exactly when the job has succeeded and has no URL; with
\* runningOnly off no detail line is suppressed.
C18_SuppressedBoth ==
    (rendered.job.done /\ rendered.url.done /\ rendered.job.err = ""
        /\ ~rendering.short_output)
        => IF rendering.running_output
           THEN rendered.job.lines = <<>>
                    <=> (rendering.job.result = "SUCCESS" /\ Falsy(rendered.url.value))
           ELSE Len(rendered.job.lines) = 1

\* C18 (amended): with shortOutput off, a rendering that fails prints no
\* detail line; otherwise, with runningOnly on, a job's detail line is
\* suppressed exactly when the job has succeeded or its log URL is empty or
\* null, and with runningOnly off no detail line is suppressed.
C18_SuppressedEither ==
    (rendered.job.done /\ rendered.url.done /\ ~rendering.short_output)
        => IF rendered.job.err # "" THEN rendered.job.lines = <<>>
           ELSE IF rendering.running_output
           THEN rendered.job.lines = <<>>
                    <=> (rendering.job.result = "SUCCESS" \/ Falsy(rendered.url.value))
           ELSE Len(rendered.job.lines) = 1

\* a pending job without a URL lost its detail line
C18_Witness ==
    /\ rendered.job.done /\ rendered.url.done /\ rendered.job.err = ""
    /\ ~rendering.short_output /\ rendering.running_output
    /\ Pending /\ "url" \notin DOMAIN rendering.job
    /\ rendered.job.lines = <<>>

\* C19: log URL resolution raises for no job and returns a string: the log
\* server's URL joined with LOG_PATH for a terminal job whose parameters hold
\* it, the job's own url otherwise, the empty string when the url is absent.
C19_LogUrlTotal ==
    rendered.url.done
        => /\ rendered.url.err = ""
           /\ rendered.url.value.type = "str"
           /\ rendered.url.value = SpecifiedLogUrl

\* C20: the bar of a pending job with known times of a positive sum is 7
\* characters wide: floor(7*elapsed/(elapsed+remaining)) '=' followed by '.'
\* only, the compensation adding at most one '.'; the bar of a pending job
\* with an unknown remaining time is seven '.'.
C20_BarWidth ==
    (rendered.bar.done /\ Pending)
        => /\ PendingTimed =>
                /\ rendered.bar.err = ""
                /\ Len(Bar) = 7
                /\ \A i \in 1..Len(Bar) : Bar[i] = IF i <= Signs THEN "=" ELSE "."
                /\ Len(Bar) - (Signs + Dots) \in {0, 1}
           /\ ~Timed => rendered.bar.err = "" /\ Bar = Repeat(".", 7)

\* five signs and two dots, no compensation needed
C20_Witness ==
    /\ rendered.bar.done /\ PendingTimed
    /\ Elapsed = 5 /\ Remaining = 2
    /\ Bar = <<"=", "=", "=", "=", "=", ".", ".">>

====
